---- MODULE Spec2Model ----
(***************************************************************************)
(* A model of the archiver cog (src/archiver/archiver.py): the storage     *)
(* backends, the reconciliation coroutine Archiver.archive_channel, the    *)
(* "archive channel" and "archive config" commands.                        *)
(*                                                                         *)
(* A message is a record [id, ch]: its snowflake id (a positive integer,   *)
(* growing with creation time) and the id of its channel.  The remote      *)
(* service is the sequence `remote`: remote[i] is the channel of the       *)
(* message whose id is i.  Coroutines are cut at their suspension points   *)
(* (every await), one action per stretch of code between two of them.      *)
(***************************************************************************)
EXTENDS Integers, Sequences, FiniteSets, TLC

\* ------------------------------------------------------------------ bounds
\* Number of messages the remote service ever holds (ids 1..MaxId).
MaxId == 3
\* Page size of a fetch: the model's value of _fetch_messages' limit=100.
PageLimit == 2
\* Number of archive_channel calls (and upsert probes) in one behaviour.
MaxCalls == 3
\* Number of channel names one "archive channel" command carries.
MaxNames == 2
\* Number of fetches recorded in a call's fetch log.
MaxLog == 6
\* Number of "archive config" commands in one behaviour.
MaxCmds == 3
\* Number of "archive config" commands between the reconciles of one behaviour.
MaxRebuilds == 1

\* ------------------------------------------------------------- vocabulary
Channels == {"c1", "c2"}
Procs == {1, 2}
\* The coroutines that run in the sequential specifications.
SeqProcs == {1}
None == "None"
BackendNames == {"TinyDB", "MongoDB"}

VARIABLES
    archive_backends,  \* the module-level registry: names of installed backends
    config,            \* Archiver.config, the in-memory configuration
    config_file,       \* the document at Archiver.config_path (None: no file)
    archive,           \* Archiver.archive, the active backend instance
    store,             \* the records the active backend instance answers with
    disk,              \* the durable records at every backend location
    remote,            \* the remote service: remote[i] = channel of message i
    order,             \* the order in which the remote lists a page
    call,              \* per coroutine: the frame of archive_channel
    cmd,               \* the frame of the "archive channel" command
    says,              \* what the running command has reported (bot.say)
    hist               \* history kept for the properties (not program state)

vars == <<archive_backends, config, config_file, archive, store, disk,
          remote, order, call, cmd, says, hist>>

\* ---------------------------------------------------------------- helpers
Max(S) == CHOOSE x \in S : \A y \in S : y <= x
Min(S) == CHOOSE x \in S : \A y \in S : x <= y
PyMax(a, b) == IF a >= b THEN a ELSE b
PyMin(a, b) == IF a <= b THEN a ELSE b

RECURSIVE DescSeq(_)
DescSeq(S) == IF S = {} THEN <<>> ELSE <<Max(S)>> \o DescSeq(S \ {Max(S)})

RECURSIVE AscSeq(_)
AscSeq(S) == IF S = {} THEN <<>> ELSE <<Min(S)>> \o AscSeq(S \ {Min(S)})

Ids(msgs) == {msgs[i].id : i \in 1..Len(msgs)}
ChannelIds(msgs, c) == {msgs[i].id : i \in {j \in 1..Len(msgs) : msgs[j].ch = c}}
Count(msgs, id) == Cardinality({i \in 1..Len(msgs) : msgs[i].id = id})
NoDuplicateIds(msgs) == \A i, j \in 1..Len(msgs) : msgs[i].id = msgs[j].id => i = j

\* ----------------------------------------------------------- the backends
\* DEFAULT_PATH[name]
DEFAULT_PATH(name) ==
    IF name = "TinyDB" THEN "data/archiver/messages.json"
    ELSE "mongodb://localhost/discordArchiver"

\* The remote service's messages of channel c.
RemoteIds(rem, c) == {i \in 1..Len(rem) : rem[i] = c}

\* The k largest (smallest) elements of S.
Largest(S, k) == {x \in S : Cardinality({y \in S : y > x}) < k}
Smallest(S, k) == {x \in S : Cardinality({y \in S : y < x}) < k}

\* What the remote answers to GET /channels/c/messages?limit=..&before=..&after=..
\* (0 stands for Python's None: "if before:" and "if after:" leave a 0 out of
\* the request as well).  After a cursor the remote lists the messages next to
\* it; with no cursor the most recent ones.
RemotePage(rem, ord, c, limit, before, after) ==
    LET all == RemoteIds(rem, c)
        sel == IF after # 0
                 THEN Smallest({i \in all : i > after /\ (before = 0 \/ i < before)}, limit)
                 ELSE IF before # 0 THEN Largest({i \in all : i < before}, limit)
                 ELSE Largest(all, limit)
        ids == IF ord = "desc" THEN DescSeq(sel) ELSE AscSeq(sel)
    IN  [i \in 1..Len(ids) |-> [id |-> ids[i], ch |-> c]]

\* Archiver._fetch_messages(channel, limit=100, before, after)
_fetch_messages(rem, ord, c, before, after) ==
    RemotePage(rem, ord, c, PageLimit, before, after)

\* Archive.get_messages(channel=c): the stored messages of the channel, in the
\* order the backend lists them (TinyDB.all(), a Mongo cursor: insertion order).
get_messages(st, c) == SelectSeq(st, LAMBDA m : m.ch = c)

\* One turn of add_messages' loop on message m: the outcome as
\* [store, added, raised].  TinyDB appends a document whenever all_new is set;
\* MongoDB keys the document by _id = id, and insert_one of an _id the
\* collection holds raises DuplicateKeyError.
add_message(kind, st, m, all_new) ==
    IF kind = "MongoDB"
      THEN IF m.id \in Ids(st)
             THEN [store |-> st, added |-> 0, raised |-> all_new]
             ELSE [store |-> Append(st, m), added |-> 1, raised |-> FALSE]
      ELSE IF all_new \/ m.id \notin Ids(st)
             THEN [store |-> Append(st, m), added |-> 1, raised |-> FALSE]
             ELSE [store |-> st, added |-> 0, raised |-> FALSE]

\* add_messages(messages, all_new) run to its end with nothing interleaved.
RECURSIVE add_messages(_, _, _, _)
add_messages(kind, st, msgs, all_new) ==
    IF msgs = <<>> THEN [store |-> st, added |-> 0, raised |-> FALSE]
    ELSE LET one == add_message(kind, st, Head(msgs), all_new)
         IN  IF one.raised THEN one
             ELSE LET rest == add_messages(kind, one.store, Tail(msgs), all_new)
                  IN  [store |-> rest.store, added |-> one.added + rest.added,
                       raised |-> rest.raised]

\* The location a backend instance reads and writes.
Location(a) == <<a.backend, a.path>>

\* TinyDBArchive.flush writes the cache to the file; Archive.flush (MongoDB)
\* does nothing, its inserts are on the server already.
flush(a, st, dk) ==
    IF a.backend = "TinyDB" THEN [dk EXCEPT ![Location(a)] = st] ELSE dk

\* The durable records after an insert: MongoDB writes through, TinyDB's
\* CachingMiddleware keeps the write in memory.
WriteThrough(a, st, dk) ==
    IF a.backend = "MongoDB" THEN [dk EXCEPT ![Location(a)] = st] ELSE dk

\* ------------------------------------------------- Archiver.archive_channel
\* The frame of a coroutine that is not running archive_channel.
IdleCall == [pc |-> "idle", channel |-> None, added |-> 0, oldest_id |-> 0,
             latest_id |-> 0, messages |-> <<>>, todo |-> <<>>, ret |-> 0,
             err |-> None]

\* Where a frame rests: no call, a returned call, a call that raised, a
\* cancelled call.
Resting == {"idle", "done", "raised", "cancelled"}
Running(p) == call[p].pc \notin Resting

\* Lines 229-246: added = 0, the first stored message of the channel (msg1)
\* seeds both watermarks and the generator goes on after it; with nothing
\* stored the coroutine goes to fetch the bootstrap page.
BeginCall(c, st) ==
    LET messages == get_messages(st, c)
    IN  IF messages = <<>>
          THEN [IdleCall EXCEPT !.pc = "boot", !.channel = c]
          ELSE [IdleCall EXCEPT !.channel = c,
                    !.oldest_id = Head(messages).id,
                    !.latest_id = Head(messages).id,
                    !.messages = Tail(messages),
                    !.pc = IF Tail(messages) = <<>> THEN "fwd" ELSE "scan"]

\* Lines 248-251 and 253-256: one turn of the watermark loop on message m.
ScanMessage(cl, m) ==
    [cl EXCEPT !.oldest_id = PyMin(cl.latest_id, m.id),
               !.latest_id = PyMax(cl.latest_id, m.id)]

\* One turn of the watermark loop, and the way out of the loop.
ScanStep(cl) ==
    LET nxt == ScanMessage(cl, Head(cl.messages))
    IN  [nxt EXCEPT !.messages = Tail(cl.messages),
                    !.pc = IF Tail(cl.messages) = <<>> THEN "fwd" ELSE "scan"]

\* EmptyChannel without its return: the call runs on into the fill loops.
EmptyChannelFallsThrough(cl) == [cl EXCEPT !.pc = "fwd"]

\* Lines 240-242: the bootstrap page is empty, return 0 (no flush).
EmptyChannel(cl) == [cl EXCEPT !.pc = "done", !.ret = 0]

\* Lines 236-242: the answer to the cursor-less fetch.
AfterBootFetch(cl, page) ==
    IF Len(page) > 0
      THEN [cl EXCEPT !.pc = "boot_add", !.messages = page, !.todo = page]
      ELSE EmptyChannel(cl)

\* Lines 260-262: the answer to a forward-fill fetch; an empty page breaks
\* out of the loop, towards the first backward-fill fetch.
AfterFwdFetch(cl, page) ==
    IF Len(page) = 0
      THEN [cl EXCEPT !.pc = "bwd"]
      ELSE [cl EXCEPT !.pc = "fwd_add", !.messages = page, !.todo = page]

\* Lines 270-272 and 276-278: the answer to a backward-fill fetch; an empty
\* page breaks out of the loop, the archive is flushed and added returned.
AfterBwdFetch(cl, page) ==
    IF Len(page) = 0
      THEN [cl EXCEPT !.pc = "done", !.ret = cl.added]
      ELSE [cl EXCEPT !.pc = "bwd_add", !.messages = page, !.todo = page]

\* What follows add_messages' last insert, up to the next suspension point:
\* line 239 (msg1 = messages[0], then the watermark loop over the page),
\* lines 265-266 (latest_id), lines 274-275 (oldest_id).
RECURSIVE LatestOf(_, _)
LatestOf(latest, msgs) ==
    IF msgs = <<>> THEN latest ELSE LatestOf(PyMax(latest, Head(msgs).id), Tail(msgs))

RECURSIVE OldestOf(_, _)
OldestOf(oldest, msgs) ==
    IF msgs = <<>> THEN oldest ELSE OldestOf(PyMin(oldest, Head(msgs).id), Tail(msgs))

\* AfterAdd with the two fill loops merged into one: after a page of the
\* backward fill the call fetches forward again.
AfterAddBackToForward(cl) ==
    CASE cl.pc = "boot_add" ->
            [cl EXCEPT !.pc = "scan", !.oldest_id = cl.messages[1].id,
                       !.latest_id = cl.messages[1].id]
      [] cl.pc = "fwd_add" ->
            [cl EXCEPT !.pc = "fwd", !.latest_id = LatestOf(cl.latest_id, cl.messages)]
      [] cl.pc = "bwd_add" ->
            [cl EXCEPT !.pc = "fwd", !.oldest_id = OldestOf(cl.oldest_id, cl.messages)]

AfterAdd(cl) ==
    CASE cl.pc = "boot_add" ->
            [cl EXCEPT !.pc = "scan", !.oldest_id = cl.messages[1].id,
                       !.latest_id = cl.messages[1].id]
      [] cl.pc = "fwd_add" ->
            [cl EXCEPT !.pc = "fwd", !.latest_id = LatestOf(cl.latest_id, cl.messages)]
      [] cl.pc = "bwd_add" ->
            [cl EXCEPT !.pc = "bwd", !.oldest_id = OldestOf(cl.oldest_id, cl.messages)]

\* One turn of add_messages(messages, all_new=True) inside archive_channel
\* (lines 238, 264, 273), on the next message of the page.
AddStep(cl, one) ==
    IF one.raised
      THEN [cl EXCEPT !.pc = "raised", !.err = "DuplicateKeyError"]
      ELSE LET nxt == [cl EXCEPT !.added = cl.added + one.added, !.todo = Tail(cl.todo)]
           IN  IF nxt.todo = <<>> THEN AfterAdd(nxt) ELSE nxt

\* The frame a call leaves behind: how it ended and what it returned.
Ended(cl) == [IdleCall EXCEPT !.pc = cl.pc, !.channel = cl.channel,
                              !.added = cl.added, !.ret = cl.ret, !.err = cl.err]
Settle(cl) == IF cl.pc \in Resting THEN Ended(cl) ELSE cl

\* archive_channel from one suspension point to the next, as [call, store]:
\* the step the frame's pc selects, against remote `rem` listed in order `ord`
\* and a backend of kind `kind` holding `st`.
StepCall(kind, rem, ord, cl, st) ==
    CASE cl.pc = "scan" -> [call |-> ScanStep(cl), store |-> st]
      [] cl.pc = "boot" ->
            [call |-> AfterBootFetch(cl, _fetch_messages(rem, ord, cl.channel, 0, 0)),
             store |-> st]
      [] cl.pc = "fwd" ->
            [call |-> AfterFwdFetch(cl, _fetch_messages(rem, ord, cl.channel, 0, cl.latest_id)),
             store |-> st]
      [] cl.pc = "bwd" ->
            [call |-> AfterBwdFetch(cl, _fetch_messages(rem, ord, cl.channel, cl.oldest_id, 0)),
             store |-> st]
      [] OTHER ->
            LET one == add_message(kind, st, Head(cl.todo), TRUE)
            IN  [call |-> AddStep(cl, one), store |-> one.store]

\* archive_channel run from frame cl to its end with nothing interleaved.
RECURSIVE RunCall(_, _, _, _, _)
RunCall(kind, rem, ord, cl, st) ==
    IF cl.pc \in Resting THEN [call |-> cl, store |-> st]
    ELSE LET nxt == StepCall(kind, rem, ord, cl, st)
         IN  RunCall(kind, rem, ord, nxt.call, nxt.store)

\* archive_channel(c) on store st, uninterrupted, against an unchanging remote.
Uninterrupted(kind, rem, ord, c, st) == RunCall(kind, rem, ord, BeginCall(c, st), st)

\* ---------------------------------------------------------- configuration
ConfigKeys == {"backend", "watch", "TinyDB_path", "MongoDB_path"}
\* Python's False, as distinct from every string a command can carry.
PyFalse == "<False>"
\* The values an "archive config <key> <value>" command carries.
CmdValues == {"TinyDB", "MongoDB", "zzz"}
Paths == {DEFAULT_PATH(b) : b \in BackendNames} \cup CmdValues
Locations == BackendNames \X Paths

\* A document with no key.
EmptyDoc == [k \in ConfigKeys |-> None]
\* DEFAULT_CONFIG (line 38)
DEFAULT_CONFIG == [EmptyDoc EXCEPT !["backend"] = "TinyDB", !["watch"] = PyFalse]

\* backend + "_path"
PathKey(backend) == IF backend = "TinyDB" THEN "TinyDB_path" ELSE "MongoDB_path"

\* Archiver._load_config: the defaults, updated with the keys of the file.
_load_config(file) ==
    [k \in ConfigKeys |-> IF file[k] # None THEN file[k] ELSE DEFAULT_CONFIG[k]]

\* Archiver._make_backend, as [ok, config, archive, store, closed]: the old
\* instance is closed first (closed is its gen, 0 when there was none;
\* Archive.close does nothing: what TinyDB's cache held unflushed is dropped
\* with the instance), DEFAULT_PATH[backend] raises KeyError for a name
\* that is not installed, the path is filled in and the new instance opens its
\* location.
_make_backend(reg, cfg, old, dk) ==
    LET backend == cfg["backend"]
    IN  IF backend \notin reg
          THEN [ok |-> FALSE, config |-> cfg, archive |-> old, store |-> <<>>,
                closed |-> old.gen]
          ELSE LET path == IF cfg[PathKey(backend)] # None THEN cfg[PathKey(backend)]
                                                            ELSE DEFAULT_PATH(backend)
                   a == [backend |-> backend, path |-> path, gen |-> old.gen + 1]
               IN  [ok |-> TRUE, config |-> [cfg EXCEPT ![PathKey(backend)] = path],
                    archive |-> a, store |-> dk[Location(a)], closed |-> old.gen]

\* No instance yet (hasattr(self, "archive") is false).
NoArchive == [backend |-> None, path |-> None, gen |-> 0]

\* ------------------------------------------------------------------ history
NoCut == [ch |-> None, store0 |-> <<>>, rlen |-> 0, clean |-> FALSE, atBwd |-> FALSE]
NoUpsert == [id |-> 0, present |-> FALSE, rets |-> <<>>, before |-> <<>>]
NoConfigCmd == [key |-> "-", value |-> "-", config |-> <<>>, file |-> <<>>,
                archive |-> <<>>, store |-> <<>>, raised |-> FALSE, closed |-> 0]
NoLive == [ch |-> None, watch |-> None, started |-> FALSE]
NoPair == [on |-> "no", base |-> <<>>, rlen |-> 0]

InitHist ==
    [calls |-> 0,                        \* calls started so far
     clean |-> TRUE,                     \* no call was cancelled, no fetch failed
     store0 |-> [p \in Procs |-> <<>>],  \* the store when p's call started
     rlen0 |-> [p \in Procs |-> 0],      \* Len(remote) when p's call started
     log |-> [p \in Procs |-> <<>>],     \* the fetches of p's call
     synced |-> [c \in Channels |-> -1], \* Len(remote) at the start of the last
                                         \* completed call on c (-1: none yet)
     prev |-> [p \in Procs |-> -1],      \* synced[channel] when p's call started
     cut |-> NoCut,                      \* the last cancelled call, until the next call
     resume |-> [p \in Procs |-> NoCut], \* the cancelled call p's call follows
     upsert |-> NoUpsert,                \* the last upsert probe
     failed |-> {},                      \* the targets of the running command
                                         \* whose reconcile had a fetch fail
     pair |-> NoPair,                    \* "yes" when a call starts while one
                                         \* other call runs that started with
                                         \* nothing running: the store and
                                         \* Len(remote) when that one started;
                                         \* "chain" when more calls overlap
     live |-> NoLive,                    \* the last live message: its channel,
                                         \* config["watch"] when it came, whether
                                         \* the hook called archive_channel
     cmds |-> 0,                         \* "archive config" commands so far
     cfg |-> NoConfigCmd]                \* the last "archive config" command and
                                         \* the state it found

\* The fetch log is cut at MaxLog entries.
Logged(log, e) == IF Len(log) < MaxLog THEN Append(log, e) ELSE log

HistStart(p, c) ==
    [hist EXCEPT !.calls = hist.calls + 1,
                 !.store0[p] = store, !.rlen0[p] = Len(remote), !.log[p] = <<>>,
                 !.prev[p] = hist.synced[c],
                 !.resume[p] = IF hist.cut.ch = c THEN hist.cut ELSE NoCut,
                 !.cut = NoCut, !.upsert = NoUpsert,
                 !.pair = IF \E q \in Procs \ {p} : Running(q)
                            THEN LET q == CHOOSE q \in Procs \ {p} : Running(q)
                                 IN  IF hist.pair.on = "no"
                                       THEN [on |-> "yes", base |-> hist.store0[q],
                                             rlen |-> hist.rlen0[q]]
                                       ELSE [NoPair EXCEPT !.on = "chain"]
                            ELSE NoPair]

HistFetch(h, p, before, after, page, cl) ==
    [h EXCEPT !.log[p] = Logged(h.log[p], [before |-> before, after |-> after, n |-> Len(page)]),
              !.synced[cl.channel] = IF cl.pc = "done" THEN h.rlen0[p]
                                     ELSE h.synced[cl.channel]]

\* ---------------------------------------------------------- initial state
\* Archiver.__init__ on a data directory whose config.json holds `file` (the
\* empty document on a first run): _load_config, _save_config, _make_backend.
\* The archives are empty and the remote holds no message yet.
Constructed(reg, file, ord) ==
    LET loaded == _load_config(file)
        made == _make_backend(reg, loaded, NoArchive, [l \in Locations |-> <<>>])
    IN  /\ made.ok
        /\ archive_backends = reg
        /\ config = made.config
        /\ config_file = loaded
        /\ archive = made.archive
        /\ store = made.store
        /\ disk = [l \in Locations |-> <<>>]
        /\ remote = <<>>
        /\ order = ord
        /\ call = [p \in Procs |-> IdleCall]
        /\ cmd = [pc |-> "idle", targets |-> <<>>, i |-> 0]
        /\ says = <<>>
        /\ hist = InitHist

\* The orders in which a remote lists a page (newest first, oldest first).
PageOrders == {"desc", "asc"}

\* Both backends installed; a first run, or a config.json naming MongoDB.
Init ==
    \E file \in {EmptyDoc, [EmptyDoc EXCEPT !["backend"] = "MongoDB"]}, ord \in PageOrders :
        Constructed(BackendNames, file, ord)

\* ------------------------------------------------ actions: archive_channel
engine_vars == <<store, disk, call, hist>>
config_vars == <<archive_backends, config, config_file, archive>>
command_vars == <<cmd, says>>

\* A new message appears in channel c on the remote service.
RemoteArrive(c) ==
    /\ Len(remote) < MaxId
    /\ remote' = Append(remote, c)
    /\ UNCHANGED <<config_vars, store, disk, order, call, command_vars, hist>>

\* archive_channel(c) is called on coroutine p and runs to its first
\* suspension point.
Start(p, c) ==
    /\ ~Running(p)
    /\ hist.calls < MaxCalls
    /\ call' = [call EXCEPT ![p] = BeginCall(c, store)]
    /\ hist' = HistStart(p, c)
    /\ UNCHANGED <<config_vars, store, disk, remote, order>>

\* The watermark loop takes one message (after its await asyncio.sleep(0)).
Scan(p) ==
    /\ call[p].pc = "scan"
    /\ call' = [call EXCEPT ![p] = ScanStep(call[p])]
    /\ UNCHANGED <<config_vars, store, disk, remote, order, command_vars, hist>>

\* The cursor-less fetch of line 236 is answered.
BootFetch(p) ==
    /\ call[p].pc = "boot"
    /\ \E page \in {_fetch_messages(remote, order, call[p].channel, 0, 0)} :
       \E cl \in {AfterBootFetch(call[p], page)} :
           /\ call' = [call EXCEPT ![p] = Settle(cl)]
           /\ hist' = HistFetch(hist, p, 0, 0, page, cl)
    /\ UNCHANGED <<config_vars, store, disk, remote, order, command_vars>>

\* A forward-fill fetch (line 260) is answered.
FwdFetch(p) ==
    /\ call[p].pc = "fwd"
    /\ \E page \in {_fetch_messages(remote, order, call[p].channel, 0, call[p].latest_id)} :
       \E cl \in {AfterFwdFetch(call[p], page)} :
           /\ call' = [call EXCEPT ![p] = Settle(cl)]
           /\ hist' = HistFetch(hist, p, 0, call[p].latest_id, page, cl)
    /\ UNCHANGED <<config_vars, store, disk, remote, order, command_vars>>

\* A backward-fill fetch (line 270) is answered; on the empty page the call
\* flushes the archive and returns.
BwdFetch(p) ==
    /\ call[p].pc = "bwd"
    /\ \E page \in {_fetch_messages(remote, order, call[p].channel, call[p].oldest_id, 0)} :
       \E cl \in {AfterBwdFetch(call[p], page)} :
           /\ call' = [call EXCEPT ![p] = Settle(cl)]
           /\ hist' = HistFetch(hist, p, call[p].oldest_id, 0, page, cl)
           /\ disk' = IF cl.pc = "done" THEN flush(archive, store, disk) ELSE disk
    /\ UNCHANGED <<config_vars, store, remote, order, command_vars>>

\* add_messages(page, all_new=True) takes its next message, and after the
\* last one the caller runs on to its next suspension point.
Add(p) ==
    /\ call[p].pc \in {"boot_add", "fwd_add", "bwd_add"}
    /\ \E one \in {add_message(archive.backend, store, Head(call[p].todo), TRUE)} :
           /\ call' = [call EXCEPT ![p] = Settle(AddStep(call[p], one))]
           /\ store' = one.store
           /\ disk' = WriteThrough(archive, one.store, disk)
    /\ UNCHANGED <<config_vars, remote, order, command_vars, hist>>

\* The request of a fetch fails (transport, authorisation, rate limit): the
\* exception leaves archive_channel, which catches nothing.
FetchFails(p) ==
    /\ call[p].pc \in {"boot", "fwd", "bwd"}
    /\ call' = [call EXCEPT ![p] = Ended([call[p] EXCEPT !.pc = "raised", !.err = "HTTPException"])]
    /\ hist' = [hist EXCEPT !.clean = FALSE,
                            !.failed = IF cmd.pc = "wait" THEN hist.failed \cup {cmd.i}
                                       ELSE hist.failed]
    /\ UNCHANGED <<config_vars, store, disk, remote, order, command_vars>>

\* The task is cancelled at the suspension point it waits at; nothing is
\* rolled back.
Cancel(p) ==
    /\ Running(p)
    /\ call' = [call EXCEPT ![p] = Ended([call[p] EXCEPT !.pc = "cancelled"])]
    /\ hist' = [hist EXCEPT !.clean = FALSE,
                            !.cut = [ch |-> call[p].channel, store0 |-> hist.store0[p],
                                     rlen |-> hist.rlen0[p], clean |-> hist.clean,
                                     atBwd |-> /\ call[p].pc = "bwd"
                                               /\ \A k \in 1..Len(hist.log[p]) :
                                                      hist.log[p][k].before = 0]]
    /\ UNCHANGED <<config_vars, store, disk, remote, order>>

\* One step of a running call.
Step(p) == Scan(p) \/ BootFetch(p) \/ FwdFetch(p) \/ BwdFetch(p) \/ Add(p)

\* Some caller reconciles channel c (no command is involved).
Reconcile(p, c) == cmd.pc = "idle" /\ Start(p, c) /\ UNCHANGED command_vars

\* Reconcile calls one after the other, each run to its end, while messages
\* keep arriving on the remote.
Next ==
    \/ \E c \in Channels : RemoteArrive(c)
    \/ \E p \in SeqProcs, c \in Channels : Reconcile(p, c)
    \/ \E p \in SeqProcs : Step(p)

Spec == Init /\ [][Next]_vars

\* The same, with calls that may be cancelled at any suspension point.
Cancelled(p) == cmd.pc = "idle" /\ Cancel(p) /\ UNCHANGED command_vars

NextCancel ==
    \/ \E c \in Channels : RemoteArrive(c)
    \/ \E p \in SeqProcs, c \in Channels : Reconcile(p, c)
    \/ \E p \in SeqProcs : Step(p)
    \/ \E p \in SeqProcs : Cancelled(p)

SpecCancel == Init /\ [][NextCancel]_vars

\* ------------------------------------------- actions: concurrent reconciles
\* A second coroutine reconciles channel c while the first one runs (two live
\* messages, a live message during an "archive channel"); from then on the
\* steps of the two interleave at the suspension points.
Overlap(c) == Running(1) /\ Reconcile(2, c)

\* The second coroutine reconciles another channel than the first.
OverlapApart(c) == call[1].channel # c /\ Overlap(c)

\* A message arrives while the second coroutine does not run.
ArriveOutsideOverlap(c) == ~Running(2) /\ RemoteArrive(c)

NextApart ==
    \/ \E c \in Channels : ArriveOutsideOverlap(c)
    \/ \E c \in Channels : Reconcile(1, c)
    \/ \E c \in Channels : OverlapApart(c)
    \/ \E p \in Procs : Step(p)

SpecApart == Init /\ [][NextApart]_vars

\* The second coroutine reconciles the channel the first is reconciling (a
\* live message in a channel that is being archived).
OverlapSame(c) == call[1].channel = c /\ Overlap(c)

NextSame ==
    \/ \E c \in Channels : ArriveOutsideOverlap(c)
    \/ \E c \in Channels : Reconcile(1, c)
    \/ \E c \in Channels : OverlapSame(c)
    \/ \E p \in Procs : Step(p)

SpecSame == Init /\ [][NextSame]_vars

\* ---------------------------------------------- actions: the backend alone
\* The messages a caller may hand to add_messages: those of the remote.
Messages == {[id |-> i, ch |-> remote[i]] : i \in 1..Len(remote)}

\* A caller of the backend upserts one record twice in a row:
\* add_messages([r], all_new=False), then the same call again.
UpsertTwice(r) ==
    /\ \A p \in Procs : ~Running(p)
    /\ hist.calls < MaxCalls
    /\ LET first == add_messages(archive.backend, store, <<r>>, FALSE)
           second == add_messages(archive.backend, first.store, <<r>>, FALSE)
       IN  /\ store' = second.store
           /\ disk' = WriteThrough(archive, second.store, disk)
           /\ hist' = [hist EXCEPT !.calls = hist.calls + 1,
                          !.upsert = [id |-> r.id, present |-> r.id \in Ids(store),
                                      rets |-> <<first.added, second.added>>,
                                      before |-> store]]
    /\ UNCHANGED <<config_vars, remote, order, call, command_vars>>

\* A caller of the backend upserts the empty batch: add_messages([]).
UpsertNothing ==
    /\ \A p \in Procs : ~Running(p)
    /\ hist.calls < MaxCalls
    /\ LET only == add_messages(archive.backend, store, <<>>, FALSE)
       IN  /\ store' = only.store
           /\ disk' = WriteThrough(archive, only.store, disk)
           /\ hist' = [hist EXCEPT !.calls = hist.calls + 1,
                          !.upsert = [id |-> 0, present |-> FALSE,
                                      rets |-> <<only.added>>, before |-> store]]
    /\ UNCHANGED <<config_vars, remote, order, call, command_vars>>

\* Reconcile calls one after the other, and upserts between them.
NextUpsert ==
    \/ \E c \in Channels : RemoteArrive(c)
    \/ \E p \in SeqProcs, c \in Channels : Reconcile(p, c)
    \/ \E p \in SeqProcs : Step(p)
    \/ \E r \in Messages : UpsertTwice(r)
    \/ UpsertNothing

SpecUpsert == Init /\ [][NextUpsert]_vars

\* --------------------------------------------------------------- liveness
\* A message arrives while no call runs: to a running call the remote is an
\* unchanging set.
ArriveBetweenCalls(c) == (\A p \in Procs : ~Running(p)) /\ RemoteArrive(c)

NextLive ==
    \/ \E c \in Channels : ArriveBetweenCalls(c)
    \/ \E p \in SeqProcs, c \in Channels : Reconcile(p, c)
    \/ \E p \in SeqProcs : Step(p)

\* The event loop resumes a coroutine that can run, and the remote and the
\* backend answer every request: a step that stays possible is taken.
SpecLive == Init /\ [][NextLive]_vars /\ \A p \in SeqProcs : WF_vars(Step(p))

\* ------------------------------------- actions: "archive channel" command
\* The channels the bot sees: the text channels and a voice channel.
VoiceChannels == {"v1"}
AllChannels == Channels \cup VoiceChannels
\* channel.type
ChannelType(ch) == IF ch \in Channels THEN "text" ELSE "voice"
\* The names a command can carry: channel ids, an id no channel has, and '*'.
Names == AllChannels \cup {"nosuch"}
\* bot.get_channel(name)
get_channel(name) == IF name \in AllChannels THEN name ELSE None
\* bot.get_all_channels()
get_all_channels == <<"c1", "c2", "v1">>
\* The argument lists of the command.
Requests == {<<"*">>} \cup UNION {[1..n -> Names] : n \in 1..MaxNames}

\* Lines 302-310: the target list; a name that resolves to nothing leaves its
\* None in the list.
Targets(names) ==
    IF names = <<"*">> THEN get_all_channels
    ELSE [k \in 1..Len(names) |-> get_channel(names[k])]

\* What the command says (bot.say).
Said(what, about, n, why, at) ==
    [what |-> what, about |-> about, n |-> n, why |-> why, at |-> at]
\* Line 309, for every name that resolved to nothing, in the order of the names.
RECURSIVE NotFound(_)
NotFound(names) ==
    IF names = <<>> \/ names = <<"*">> THEN <<>>
    ELSE (IF get_channel(Head(names)) = None
            THEN <<Said("Could not find Channel", Head(names), 0, None, 0)>>
            ELSE <<>>) \o NotFound(Tail(names))

\* The loop of line 312 moves on to its next channel, or is over.
Advance(c) ==
    [c EXCEPT !.i = c.i + 1, !.pc = IF c.i < Len(c.targets) THEN "loop" ELSE "done"]

\* AfterReconcile without the try/except of lines 316-321: the exception of
\* archive_channel leaves the command.
AfterReconcileUncaught(c, cl) ==
    IF cl.pc = "raised" THEN [c EXCEPT !.pc = "crashed"] ELSE Advance(c)

\* Lines 316-321: archive_channel returned, or raised an Exception that the
\* except clause catches; either way the loop goes on.
AfterReconcile(c, cl) == Advance(c)

\* Lines 318 and 321: what is said of the call that ended.
Report(c, cl) ==
    IF cl.pc = "raised"
      THEN Said("Couldn't archive", c.targets[c.i], 0, cl.err, c.i)
      ELSE Said("got messages", c.targets[c.i], cl.ret, None, c.i)

TextTargets(targets) == {k \in 1..Len(targets) : targets[k] \in Channels}

\* "archive channel <names>" is invoked: lines 302-310.
CmdStart(names) ==
    /\ cmd.pc = "idle"
    /\ \A p \in Procs : ~Running(p)
    /\ hist.calls + Cardinality(TextTargets(Targets(names))) <= MaxCalls
    /\ cmd' = [pc |-> "loop", targets |-> Targets(names), i |-> 1]
    /\ says' = NotFound(names)
    /\ hist' = [hist EXCEPT !.failed = {}]
    /\ UNCHANGED <<config_vars, store, disk, remote, order, call>>

\* Line 313 on a None of the target list: channel.id raises AttributeError,
\* which nothing catches.
CmdCrash ==
    /\ cmd.pc = "loop"
    /\ cmd.targets[cmd.i] = None
    /\ cmd' = [cmd EXCEPT !.pc = "crashed"]
    /\ UNCHANGED <<config_vars, store, disk, remote, order, call, says, hist>>

\* Lines 313-315 on a channel that is no text channel: announced and passed.
CmdSkip ==
    /\ cmd.pc = "loop"
    /\ cmd.targets[cmd.i] # None
    /\ ChannelType(cmd.targets[cmd.i]) # "text"
    /\ says' = Append(says, Said("Archiving Channel", cmd.targets[cmd.i], 0, None, cmd.i))
    /\ cmd' = Advance(cmd)
    /\ UNCHANGED <<config_vars, store, disk, remote, order, call, hist>>

\* Lines 313-317 on a text channel: announced, and archive_channel is awaited.
CmdReconcile(p) ==
    /\ cmd.pc = "loop"
    /\ cmd.targets[cmd.i] # None
    /\ ChannelType(cmd.targets[cmd.i]) = "text"
    /\ says' = Append(says, Said("Archiving Channel", cmd.targets[cmd.i], 0, None, cmd.i))
    /\ cmd' = [cmd EXCEPT !.pc = "wait"]
    /\ Start(p, cmd.targets[cmd.i])

\* Lines 317-321: the awaited call has returned or raised.
CmdCollect(p) ==
    /\ cmd.pc = "wait"
    /\ call[p].pc \in {"done", "raised"}
    /\ says' = Append(says, Report(cmd, call[p]))
    /\ cmd' = AfterReconcile(cmd, call[p])
    /\ UNCHANGED <<config_vars, store, disk, remote, order, call, hist>>

\* A message arrives before the command is invoked.
ArriveBeforeCommand(c) == cmd.pc = "idle" /\ RemoteArrive(c)

\* One "archive channel" command, on a remote that holds messages and whose
\* fetches may fail.
NextCmd ==
    \/ \E c \in Channels : ArriveBeforeCommand(c)
    \/ \E names \in Requests : CmdStart(names)
    \/ CmdCrash
    \/ CmdSkip
    \/ \E p \in SeqProcs : CmdReconcile(p)
    \/ \E p \in SeqProcs : CmdCollect(p)
    \/ \E p \in SeqProcs : Step(p)
    \/ \E p \in SeqProcs : FetchFails(p)

SpecCmd == Init /\ [][NextCmd]_vars

\* -------------------------------------- actions: "archive config" command
\* The keys an "archive config" command carries (None: no key).
CmdKeys == ConfigKeys \cup {None, "reload"}

\* InstalledAny: every name passes for an installed backend.
InstalledAny(reg, value) == TRUE

\* Line 341: value in archive_backends
Installed(reg, value) == value \in reg

\* RebuildsOnBackendOnly: a path key does not rebuild the backend.
RebuildsOnBackendOnly(key) == key = "backend"

\* Line 347: (len(key) > 5 and key[-5:] == "_path") or key == 'backend'
Rebuilds(key) == key \in {"TinyDB_path", "MongoDB_path"} \/ key = "backend"

\* Archiver._archive_config(key, value) run on configuration cfg, config.json
\* `file`, backend instance a holding st, and durable records dk: what it
\* leaves as [config, file, archive, store, says, raised, closed].
_archive_config(reg, cfg, file, a, st, dk, key, value) ==
    LET same == [config |-> cfg, file |-> file, archive |-> a, store |-> st,
                 says |-> <<>>, raised |-> FALSE, closed |-> 0]
    IN  IF key = None
          THEN [same EXCEPT !.says = <<Said("config", None, 0, None, 0)>>]
        ELSE IF key = "reload"
          THEN LET made == _make_backend(reg, _load_config(file), a, dk)
               IN  [same EXCEPT !.config = made.config, !.archive = made.archive,
                                !.store = IF made.ok THEN made.store ELSE st,
                                !.raised = ~made.ok, !.closed = made.closed]
        ELSE IF value = None
          THEN IF cfg[key] = None
                 THEN [same EXCEPT !.raised = TRUE]
                 ELSE [same EXCEPT !.says = <<Said("key == value", key, 0, None, 0)>>]
        ELSE IF key = "backend" /\ ~Installed(reg, value)
          THEN [same EXCEPT !.says = <<Said("not installed", value, 0, None, 0)>>]
        ELSE LET set == [cfg EXCEPT ![key] = value]
             IN  IF Rebuilds(key)
                   THEN LET made == _make_backend(reg, set, a, dk)
                        IN  IF made.ok
                              THEN [config |-> made.config, file |-> made.config,
                                    archive |-> made.archive, store |-> made.store,
                                    says |-> <<Said("Backend Archive reloaded", None, 0, None, 0)>>,
                                    raised |-> FALSE, closed |-> made.closed]
                              ELSE [same EXCEPT !.config = set, !.raised = TRUE,
                                                !.closed = made.closed]
                   ELSE [same EXCEPT !.config = set, !.file = set]

\* "archive config [key [value]]" is invoked while no call and no other
\* command runs.
ArchiveConfig(key, value) ==
    /\ cmd.pc = "idle"
    /\ \A p \in Procs : ~Running(p)
    /\ hist.cmds < MaxCmds
    /\ \E out \in {_archive_config(archive_backends, config, config_file, archive,
                                   store, disk, key, value)} :
           /\ config' = out.config
           /\ config_file' = out.file
           /\ archive' = out.archive
           /\ store' = out.store
           /\ says' = out.says
           /\ hist' = [hist EXCEPT !.cmds = hist.cmds + 1,
                          !.cfg = [key |-> key, value |-> value, config |-> config,
                                   file |-> config_file, archive |-> archive,
                                   store |-> store, raised |-> out.raised, closed |-> out.closed]]
    /\ UNCHANGED <<archive_backends, disk, remote, order, call, cmd>>

\* "archive config" commands one after the other.
NextConfig ==
    \E key \in CmdKeys, value \in CmdValues \cup {None} : ArchiveConfig(key, value)

SpecConfig == Init /\ [][NextConfig]_vars

\* ------------------------------------------------ actions: on_message
\* Python's True.
PyTrue == "<True>"
\* The values an operator types for the watch setting; a command's argument
\* reaches _archive_config as a str.
WatchValues == {"True", "False"}

\* bool(v) for the values config["watch"] takes: False, the empty string and
\* a missing key (config.get's default) are false, every other str is true.
Truthy(v) == v \notin {PyFalse, None, ""}

\* A message appears in channel c and the bot delivers it to on_message
\* (lines 281-283), which calls archive_channel(message.channel) on coroutine
\* p when config.get("watch", False) is true.
on_message(p, c) ==
    /\ cmd.pc = "idle"
    /\ \A q \in Procs : ~Running(q)
    /\ Len(remote) < MaxId
    /\ hist.calls < MaxCalls
    /\ remote' = Append(remote, c)
    /\ IF Truthy(config["watch"])
         THEN /\ call' = [call EXCEPT ![p] = BeginCall(c, store)]
              /\ hist' = [HistStart(p, c) EXCEPT
                              !.rlen0[p] = Len(remote) + 1,
                              !.live = [ch |-> c, watch |-> config["watch"], started |-> TRUE]]
         ELSE /\ call' = call
              /\ hist' = [hist EXCEPT
                              !.live = [ch |-> c, watch |-> config["watch"], started |-> FALSE]]
    /\ UNCHANGED <<config_vars, store, disk, order, command_vars>>

\* "archive config watch <value>"
SetWatch(value) == ArchiveConfig("watch", value)

\* Live messages, each handled to the end of its reconcile, and the operator
\* switching the watch setting between them.
NextWatch ==
    \/ \E p \in SeqProcs, c \in Channels : on_message(p, c)
    \/ \E value \in WatchValues : SetWatch(value)
    \/ \E p \in SeqProcs : Step(p)

SpecWatch == Init /\ [][NextWatch]_vars

\* ------------------------------------- actions: failures and rebuilds
\* A fetch of a reconcile that no command started fails.
Failed(p) == cmd.pc = "idle" /\ FetchFails(p)

\* An "archive config" command between two reconciles.
ConfigBetweenCalls(key, value) == hist.cmds < MaxRebuilds /\ ArchiveConfig(key, value)

\* Reconcile calls one after the other, some ended by a failing fetch, and
\* "archive config" commands between them.
NextDurable ==
    \/ \E c \in Channels : ArriveBetweenCalls(c)
    \/ \E p \in SeqProcs, c \in Channels : Reconcile(p, c)
    \/ \E p \in SeqProcs : Step(p)
    \/ \E p \in SeqProcs : Failed(p)
    \/ \E key \in CmdKeys, value \in CmdValues \cup {None} : ConfigBetweenCalls(key, value)

SpecDurable == Init /\ [][NextDurable]_vars

\* ------------------------------------------------------------ properties
\* The stored ids a complete reconcile of channel c leaves, from stored ids S
\* and remote ids R: S, and what the remote holds above and below S (all of
\* R when S is empty and the bootstrap page seeds it).
Reconciled(S, R) ==
    IF S = {} THEN R ELSE S \cup {i \in R : i > Max(S) \/ i < Min(S)}

\* p's call has come to its end, by return or by exception.
Over(p) == call[p].pc \in {"done", "raised"}

\* C1: reconcile is idempotent.  When a call on a channel ends, no call was
\* ever cancelled or failed, an earlier call on the channel has completed and
\* the remote holds no message of the channel newer than those it held when
\* that earlier call started, then the call returns 0 and the store is the
\* one it started from.
ReconcileIdempotent ==
    \A p \in Procs :
        ( /\ Over(p)
          /\ hist.clean
          /\ hist.prev[p] # -1
          /\ \A i \in RemoteIds(remote, call[p].channel) : i <= hist.prev[p] )
        => /\ call[p].pc = "done"
           /\ call[p].ret = 0
           /\ store = hist.store0[p]

\* C2: after any sequence of reconcile calls run one after the other, none
\* cancelled and no fetch failing, no two stored records have the same id.
UniqueIds == hist.clean => NoDuplicateIds(store)

\* C5: completeness of one reconcile.  A call that starts from a store
\* without duplicate ids, with stored ids S for its channel, and runs against
\* an unchanging remote ends by returning, with the stored ids of the channel
\* being S and every remote id above max(S) and below min(S), each stored
\* once, and returns the number of ids that were not in S.
ReconcileComplete ==
    \A p \in Procs :
        ( /\ Over(p)
          /\ hist.clean
          /\ Len(remote) = hist.rlen0[p]
          /\ NoDuplicateIds(hist.store0[p]) )
        => LET c == call[p].channel
               S == ChannelIds(hist.store0[p], c)
               E == Reconciled(S, RemoteIds(remote, c))
           IN  /\ call[p].pc = "done"
               /\ ChannelIds(store, c) = E
               /\ \A i \in E : Count(store, i) = 1
               /\ call[p].ret = Cardinality(E \ S)

\* C6: bootstrap from empty.  When the cursor-less fetch of a call on a
\* channel with no stored record is answered with the empty page, the call
\* has returned 0, has issued no other fetch, and the store is the one the
\* call started from.
BootstrapFromEmpty ==
    \A p \in Procs :
        ( /\ ChannelIds(hist.store0[p], call[p].channel) = {}
          /\ hist.log[p] # <<>>
          /\ hist.log[p][1] = [before |-> 0, after |-> 0, n |-> 0] )
        => /\ call[p].pc = "done"
           /\ call[p].ret = 0
           /\ Len(hist.log[p]) = 1
           /\ store = hist.store0[p]

\* C6, its case: a call on an empty channel has returned after the empty
\* bootstrap page, while the store holds records of another channel.
BootstrapFromEmptyReached ==
    \E p \in Procs :
        /\ call[p].pc = "done"
        /\ hist.log[p] = <<[before |-> 0, after |-> 0, n |-> 0]>>
        /\ store # <<>>

\* C3: resumability.  A call is stopped after its forward-fill loop and
\* before its first backward-fill fetch, the channel is reconciled again at
\* once and that call returns, the remote being the one the stopped call
\* started with: the store is then the one a single uninterrupted call leaves
\* from the store the stopped call started from.
ResumeEqualsUninterrupted ==
    \A p \in Procs :
        ( /\ call[p].pc = "done"
          /\ hist.resume[p].ch = call[p].channel
          /\ hist.resume[p].atBwd
          /\ hist.resume[p].clean
          /\ Len(remote) = hist.resume[p].rlen )
        => store = Uninterrupted(archive.backend, remote, order, call[p].channel,
                                 hist.resume[p].store0).store

\* C4: cancellation.  A call is cancelled at some suspension point (the first
\* call to be, with no fetch failing before), the channel is reconciled again
\* at once and that call returns, the remote being the one the cancelled call
\* started with: the store then holds every remote message of the channel
\* exactly once.
CancelledThenComplete ==
    \A p \in Procs :
        ( /\ call[p].pc = "done"
          /\ hist.resume[p].ch = call[p].channel
          /\ hist.resume[p].clean
          /\ Len(remote) = hist.resume[p].rlen )
        => /\ ChannelIds(store, call[p].channel) = RemoteIds(remote, call[p].channel)
           /\ \A i \in RemoteIds(remote, call[p].channel) : Count(store, i) = 1

\* The actions of archive_channel and the run of StepCall agree: a call that
\* returns or raises with the remote unchanged since its start leaves the
\* store and the frame that Uninterrupted computes from its starting store.
StepsAgree ==
    \A p \in Procs :
        (Over(p) /\ Len(remote) = hist.rlen0[p] /\ hist.resume[p].ch = None /\ hist.calls > 0)
        => LET u == Uninterrupted(archive.backend, remote, order, call[p].channel,
                                  hist.store0[p])
           IN  store = u.store /\ call[p] = Ended(u.call)

\* C7: idempotent upsert.  After add_messages([r], all_new=False) was called
\* twice in a row, the calls have returned 1 then 0 when r's id was absent and
\* 0 then 0 when it was present, and the store holds exactly one record with
\* r's id; after add_messages([]) the call has returned 0 and the store is
\* the one before the call.
IdempotentUpsert ==
    hist.upsert.rets # <<>> =>
        IF hist.upsert.id = 0
          THEN hist.upsert.rets = <<0>> /\ store = hist.upsert.before
          ELSE /\ hist.upsert.rets = IF hist.upsert.present THEN <<0, 0>> ELSE <<1, 0>>
               /\ Count(store, hist.upsert.id) = 1

\* C8: termination.  Against a remote that does not change while a call runs
\* and whose pages lie beyond the cursor, every call that has started
\* eventually returns.
ReconcileReturns ==
    \A p \in SeqProcs : Running(p) ~> call[p].pc = "done"

\* Every call comes to its end all the same: it returns, or on MongoDB it
\* raises the DuplicateKeyError of an insert.
ReconcileEnds ==
    \A p \in SeqProcs :
        Running(p) ~> \/ call[p].pc = "done"
                      \/ archive.backend = "MongoDB" /\ call[p].pc = "raised"

\* C9: per-channel failure isolation.  A fetch error inside the reconcile of
\* one target of an "archive channel" command leaves archive_channel as an
\* exception (the call has raised, it has not returned), the command reports
\* it for that target and goes on: the command never stops on it, and every
\* text channel the loop has passed has its report of a reconcile.
FailureIsolated ==
    /\ cmd.pc = "crashed" => cmd.targets[cmd.i] = None
    /\ \A k \in hist.failed :
          /\ (k = cmd.i /\ cmd.pc = "wait") =>
                 \A p \in SeqProcs : call[p].pc = "raised" /\ call[p].err = "HTTPException"
          /\ k < cmd.i =>
                 \E j \in 1..Len(says) :
                     says[j] = Said("Couldn't archive", cmd.targets[k], 0, "HTTPException", k)
    /\ \A k \in TextTargets(cmd.targets) :
          k < cmd.i =>
              \E j \in 1..Len(says) :
                  /\ says[j].at = k
                  /\ says[j].about = cmd.targets[k]
                  /\ says[j].what \in {"got messages", "Couldn't archive"}

\* C9, its case: a command over two channels is over, the reconcile of its
\* first channel had a fetch fail, and the second channel was reconciled and
\* got messages.
FailedThenReconciled ==
    /\ cmd.pc = "done"
    /\ Len(cmd.targets) = 2
    /\ 1 \in hist.failed
    /\ \E j \in 1..Len(says) :
           says[j].what = "got messages" /\ says[j].at = 2 /\ says[j].n > 0

\* C10: unknown backend rejection.  After "archive config backend <v>" with v
\* no registered backend name, the command has reported that v is not
\* installed and the configuration in memory, config.json and the backend
\* instance are what they were before the command.
UnknownBackendRejected ==
    (hist.cfg.key = "backend" /\ hist.cfg.value \notin archive_backends \cup {None}) =>
        /\ says = <<Said("not installed", hist.cfg.value, 0, None, 0)>>
        /\ ~hist.cfg.raised
        /\ config = hist.cfg.config
        /\ config_file = hist.cfg.file
        /\ archive = hist.cfg.archive

\* C10, its case: the rejected command came after a command that had rebuilt
\* the backend.
RejectedAfterRebuild ==
    /\ hist.cfg.key = "backend"
    /\ hist.cfg.value = "zzz"
    /\ archive.gen > 1
    /\ hist.cmds > 1

\* C11: a config set command that is accepted (a key of the configuration
\* and a value, not the rejected "backend <unknown>") has stored the value in
\* config.json; when the key is "backend" or a "<name>_path" key it has closed
\* the previous backend instance and built a new one from the configuration,
\* and otherwise the backend instance is the one it found and nothing was
\* closed.
RebuildIffBackendOrPath ==
    LET c == hist.cfg
    IN  ( /\ c.key \in ConfigKeys
          /\ c.value # None
          /\ ~(c.key = "backend" /\ c.value \notin archive_backends) )
        => /\ ~c.raised
           /\ config[c.key] = c.value
           /\ config_file[c.key] = c.value
           /\ IF c.key = "backend" \/ c.key \in {PathKey(b) : b \in BackendNames}
                 THEN /\ c.closed = c.archive.gen
                      /\ archive.gen = c.archive.gen + 1
                      /\ archive.backend = config["backend"]
                      /\ archive.path = config[PathKey(config["backend"])]
                 ELSE /\ c.closed = 0
                      /\ archive = c.archive

\* C11, its case: the path of the backend that is not the active one was set,
\* after a command that set another key, and the backend was rebuilt.
PathSetRebuilt ==
    /\ hist.cfg.key = "MongoDB_path"
    /\ hist.cfg.value # None
    /\ config["backend"] = "TinyDB"
    /\ config["watch"] # PyFalse
    /\ archive.gen = hist.cfg.archive.gen + 1

\* C12: after every configuration load, at the start of the service and on
\* "archive config reload", config.json equals the configuration in memory,
\* and holds the keys of the defaults and the path of the active backend.
LoadedConfigPersisted ==
    (hist.cfg.key \in {NoConfigCmd.key, "reload"} /\ ~hist.cfg.raised) =>
        /\ config_file = config
        /\ \A k \in {"backend", "watch", PathKey(config["backend"])} : config_file[k] # None

\* The records of S and of T are the same, each as many times.
SameRecords(S, T) == \A id \in 1..MaxId : Count(S, id) = Count(T, id)

\* Two calls on different channels overlapped and both returned, the remote
\* the same from the start of the first to the end of the last, on a store
\* that held no id twice.
ApartPairOver ==
    /\ hist.pair.on = "yes"
    /\ \A p \in Procs : call[p].pc = "done"
    /\ call[1].channel # call[2].channel
    /\ hist.pair.rlen = Len(remote)
    /\ NoDuplicateIds(hist.pair.base)

\* The two calls run one after the other, the call of p first.
InSequence(p, q) ==
    LET first == Uninterrupted(archive.backend, remote, order, call[p].channel, hist.pair.base)
    IN  Uninterrupted(archive.backend, remote, order, call[q].channel, first.store)

\* What the two interleaved calls left is what either sequential order leaves,
\* and each returned what it returns when it runs alone.
ApartAsInSequence ==
    ApartPairOver =>
        /\ SameRecords(store, InSequence(1, 2).store)
        /\ SameRecords(store, InSequence(2, 1).store)
        /\ \A p \in Procs :
               call[p].ret = Uninterrupted(archive.backend, remote, order,
                                           call[p].channel, hist.pair.base).call.ret

\* C13: two concurrent reconciles of different channels, interleaved at any
\* suspension points, leave the records that running them one after the other
\* (in either order) leaves, no id twice, and each returns the count it returns
\* alone.
ConcurrentChannelsIndependent ==
    ApartAsInSequence /\ (ApartPairOver => NoDuplicateIds(store))
\* The records the active backend holds durably.
Durable == disk[Location(archive)]

\* C14: whenever archive_channel has returned, by any return path, the
\* records upserted into the active backend so far (by this call or by an
\* earlier call that failed) are durable.
ReturnedThenDurable ==
    \A p \in Procs : call[p].pc = "done" => Durable = store
\* The call of p has left the watermark loop and has not fetched for the fill
\* loops yet.
BeforeFill(p) ==
    /\ call[p].pc = "fwd"
    /\ \A k \in 1..Len(hist.log[p]) : hist.log[p][k].before = 0 /\ hist.log[p][k].after = 0

\* latest_id is the largest id the store holds for the channel.
LatestIsMax ==
    \A p \in SeqProcs : BeforeFill(p) =>
        call[p].latest_id = Max(ChannelIds(store, call[p].channel))

\* C15: when the fill loops begin, oldest_id is the smallest and latest_id the
\* largest id among the stored records of the channel (among the bootstrap
\* page when nothing was stored), however many they are and in whatever order.
WatermarksAreExtremes ==
    \A p \in SeqProcs : BeforeFill(p) =>
        /\ call[p].oldest_id = Min(ChannelIds(store, call[p].channel))
        /\ call[p].latest_id = Max(ChannelIds(store, call[p].channel))
\* The fetches of the call of p that carry an after cursor, a before cursor.
Forward(p) == {k \in 1..Len(hist.log[p]) : hist.log[p][k].after # 0}
Backward(p) == {k \in 1..Len(hist.log[p]) : hist.log[p][k].before # 0}

\* C16: in one call every forward-fill fetch comes before every backward-fill
\* fetch, the after cursors grow strictly from fetch to fetch, the before
\* cursors fall strictly, no fetch carries both cursors, and the bootstrap
\* fetch carries none.
CursorsMonotonic ==
    \A p \in SeqProcs :
        LET log == hist.log[p]
        IN  /\ Forward(p) \cap Backward(p) = {}
            /\ \A i \in Forward(p), j \in Backward(p) : i < j
            /\ \A i, j \in Forward(p) : i < j => log[i].after < log[j].after
            /\ \A i, j \in Backward(p) : i < j => log[i].before > log[j].before
            /\ (get_messages(hist.store0[p], call[p].channel) = <<>> /\ log # <<>>) =>
                   log[1].before = 0 /\ log[1].after = 0
            /\ \A k \in 1..Len(log) :
                   k \notin Forward(p) \cup Backward(p) =>
                       k = 1 /\ get_messages(hist.store0[p], call[p].channel) = <<>>

\* A call fetched forward twice, the first page not empty, and then backward
\* twice, the first page not empty.
BothFillsFetchedTwice ==
    \E p \in SeqProcs :
        /\ \E i, j \in Forward(p) : i < j /\ hist.log[p][i].n > 0
        /\ \E i, j \in Backward(p) : i < j /\ hist.log[p][i].n > 0
\* C17: once a rebuild has closed a TinyDB instance, every record that was
\* upserted into it (also by a reconcile that failed before its flush) is in
\* the instance's file.
ClosedThenDurable ==
    (hist.cfg.closed > 0 /\ hist.cfg.archive.backend = "TinyDB") =>
        Ids(hist.cfg.store) \subseteq Ids(disk[Location(hist.cfg.archive)])
\* The hook called archive_channel exactly when config["watch"] was true to
\* Python.
HookFollowsWatch ==
    hist.live # NoLive => (hist.live.started <=> Truthy(hist.live.watch))

\* C18: a live message starts a reconcile exactly when watch is enabled; watch
\* is a boolean in every configuration the config commands reach; and once
\* the operator has set watch to a false value a message starts no reconcile.
WatchIsSwitch ==
    /\ HookFollowsWatch
    /\ config["watch"] \in {PyTrue, PyFalse}
    /\ hist.live.watch = "False" => ~hist.live.started
\* C19: on TinyDB, whose add_messages tests and inserts a record with no
\* suspension point between the two, two overlapping reconciles of one channel
\* never leave an id twice in the store, whatever the interleaving.
OverlapStoresOnce ==
    (/\ archive.backend = "TinyDB"
     /\ hist.pair.on = "yes"
     /\ call[1].channel = call[2].channel
     /\ NoDuplicateIds(hist.pair.base)) => NoDuplicateIds(store)
\* The loop of the command runs no further: it is over, or an exception
\* ended it.
CmdEnded == cmd.pc \in {"done", "crashed"}

\* C20: in an "archive channel" request that names several channels, a name
\* that resolves to nothing is passed over, and when the command has ended
\* every text channel among its targets has been reconciled.
UnresolvedSkipped ==
    (CmdEnded /\ Len(cmd.targets) > 1) =>
        /\ cmd.pc = "done"
        /\ \A k \in TextTargets(cmd.targets) :
               \E j \in 1..Len(says) :
                   /\ says[j].at = k
                   /\ says[j].about = cmd.targets[k]
                   /\ says[j].what \in {"got messages", "Couldn't archive"}
====
